---- MODULE Spec2Model ----
(***************************************************************************)
(* Outfit curation engine: the rule engine (services/rule_engine.py) and   *)
(* the randomized outfit generator (services/outfit_generator.py).         *)
(*                                                                         *)
(* Enumerations are modelled by their string values.  A ClothingItem is a  *)
(* record of the fields the engine reads.  Python lists are sequences;     *)
(* lists that are only tested for membership (the rule tables) are sets.   *)
(* Every random draw of the generator is a nondeterministic choice.        *)
(***************************************************************************)
EXTENDS Integers, Sequences, FiniteSets, TLC

VARIABLES
    inventory,          \* request.inventory
    body_type,          \* request.user_info.body_type
    occasion_info,      \* request.occasion_info: [occasion_type, weather]
    max_outfits,        \* request.max_outfits
    filtered_items,     \* the pool the filters have produced so far
    applied,            \* the filters applied to the pool, in order
    categorized_items,  \* the six buckets of generate_outfits
    outfits,            \* the local list `outfits` of generate_outfits
    attempt,            \* the local counter `attempt`
    pc,                 \* position in generate_outfits
    result              \* the list generate_outfits returned

vars == <<inventory, body_type, occasion_info, max_outfits, filtered_items,
          applied, categorized_items, outfits, attempt, pc, result>>

(***************************************************************************)
(* models/schemas.py: the enumerations                                     *)
(***************************************************************************)
BodyType == {"triangle", "rectangle", "hourglass", "inverted_triangle", "oval"}

OccasionType == {"casual", "business", "formal", "party", "glamorous"}

WeatherCondition == {"hot", "warm", "cool", "cold", "rainy"}

ItemCategory == {"top", "bottom", "dress", "outerwear", "shoes", "accessory"}

FitType == {"slim", "regular", "wide_leg", "fitted", "structured", "relaxed",
            "oversized", "skinny", "straight", "boot_cut", "a_line"}

Color == {"black", "white", "red", "blue", "green", "yellow", "purple", "pink",
          "orange", "brown", "gray", "navy", "beige", "cream", "patterned"}

\* ClothingItem.weight is a free string; the engine knows these three.
Weight == {"light", "medium", "heavy"}

\* ClothingItem.pattern is Optional[str]; NoPattern stands for None.
NoPattern == "None"

ClothingItem(id, cat, sub, col, pat, w, f) ==
    [item_id |-> id, category |-> cat, subcategory |-> sub, color |-> col,
     pattern |-> pat, weight |-> w, fit |-> f]

(***************************************************************************)
(* services/rule_engine.py: the rule tables                                *)
(***************************************************************************)
body_type_rules ==
    [b \in {"triangle", "inverted_triangle", "rectangle"} |->
        CASE b = "triangle" ->
               [top_fit |-> {"fitted", "structured"},
                bottom_fit |-> {"straight", "boot_cut"},
                dress_fit |-> {"a_line"},
                recommended_colors |->
                    [top |-> {"patterned", "red", "blue", "green"},
                     bottom |-> {"black", "navy", "gray", "brown"}],
                avoid_fits |->
                    [top |-> {"oversized", "relaxed"}, bottom |-> {"skinny"}],
                fabric_weight |->
                    [top |-> {"light", "medium"}, bottom |-> {"medium"}]]
          [] b = "inverted_triangle" ->
               [top_fit |-> {"relaxed"},
                bottom_fit |-> {"a_line", "wide_leg"},
                dress_fit |-> {"a_line"},
                recommended_colors |->
                    [top |-> {"black", "navy", "gray"},
                     bottom |-> {"patterned", "red", "blue"}],
                avoid_fits |->
                    [top |-> {"structured"}, bottom |-> {"skinny", "straight"}],
                fabric_weight |->
                    [top |-> {"light"}, bottom |-> {"medium", "heavy"}]]
          [] b = "rectangle" ->
               [top_fit |-> {"fitted", "structured"},
                bottom_fit |-> {"a_line", "boot_cut"},
                dress_fit |-> {"a_line"},
                recommended_colors |->
                    [top |-> {"patterned", "red", "blue"},
                     bottom |-> {"patterned", "green", "purple"}],
                avoid_fits |->
                    [top |-> {"oversized"}, bottom |-> {"skinny"}],
                fabric_weight |->
                    [top |-> {"light", "medium"}, bottom |-> {"medium"}]]]

occasion_rules ==
    [o \in {"casual", "business", "party"} |->
        CASE o = "casual" ->
               [allowed_fits |-> {"relaxed", "straight"},
                fabric_weights |-> {"light", "medium"},
                color_intensity |-> "medium",
                pattern_intensity |-> "medium"]
          [] o = "business" ->
               [allowed_fits |-> {"structured", "fitted"},
                fabric_weights |-> {"medium"},
                color_intensity |-> "low",
                pattern_intensity |-> "low"]
          [] o = "party" ->
               [allowed_fits |-> {"fitted", "structured"},
                fabric_weights |-> {"light", "medium"},
                color_intensity |-> "high",
                pattern_intensity |-> "high"]]

\* dict.get(key, {}): the entry, or the empty dict (a function with no keys).
RulesFor(table, key) == IF key \in DOMAIN table THEN table[key] ELSE <<>>

(***************************************************************************)
(* services/rule_engine.py: the filters                                    *)
(***************************************************************************)
TopRole == {"top", "dress", "outerwear"}

\* A faulty variant: the bottom branches never match (the category is
\* compared with a value no item has), so only top-role items are checked.
_is_item_compatible_top_only(item, rules) ==
    LET has(k) == k \in DOMAIN rules
        fitTopBad ==
            /\ item.category \in TopRole
            /\ \/ has("avoid_fits") /\ item.fit \in rules.avoid_fits.top
               \/ has("top_fit") /\ item.fit \notin rules.top_fit
        colorBad ==
            /\ has("recommended_colors")
            /\ item.category \in TopRole
            /\ item.color \notin rules.recommended_colors.top
        weightBad ==
            /\ has("fabric_weight")
            /\ item.category \in {"top", "dress"}
            /\ item.weight \notin rules.fabric_weight.top
    IN  ~fitTopBad /\ ~colorBad /\ ~weightBad

_is_item_compatible(item, rules) ==
    LET has(k) == k \in DOMAIN rules
        fitTopBad ==
            /\ item.category \in TopRole
            /\ \/ has("avoid_fits") /\ item.fit \in rules.avoid_fits.top
               \/ has("top_fit") /\ item.fit \notin rules.top_fit
        fitBottomBad ==
            /\ item.category = "bottom"
            /\ \/ has("avoid_fits") /\ item.fit \in rules.avoid_fits.bottom
               \/ has("bottom_fit") /\ item.fit \notin rules.bottom_fit
        colorBad ==
            /\ has("recommended_colors")
            /\ IF item.category \in TopRole
               THEN item.color \notin rules.recommended_colors.top
               ELSE /\ item.category = "bottom"
                    /\ item.color \notin rules.recommended_colors.bottom
        weightBad ==
            /\ has("fabric_weight")
            /\ IF item.category \in {"top", "dress"}
               THEN item.weight \notin rules.fabric_weight.top
               ELSE /\ item.category = "bottom"
                    /\ item.weight \notin rules.fabric_weight.bottom
    IN  ~fitTopBad /\ ~fitBottomBad /\ ~colorBad /\ ~weightBad

\* The loop `for item in items: if ...: filtered_items.append(item)`.
RECURSIVE KeepCompatible(_, _)
KeepCompatible(items, rules) ==
    IF items = <<>> THEN <<>>
    ELSE (IF _is_item_compatible(Head(items), rules)
          THEN <<Head(items)>> ELSE <<>>)
         \o KeepCompatible(Tail(items), rules)

\* A faulty variant: the loop starts at the second item (items[1:]).
filter_by_body_type_skip_first(items, bt) ==
    KeepCompatible(IF items = <<>> THEN <<>> ELSE Tail(items),
                   RulesFor(body_type_rules, bt))

filter_by_body_type(items, bt) ==
    KeepCompatible(items, RulesFor(body_type_rules, bt))

BusinessTopSubcategories == {"shirt", "blouse", "button-down"}

\* A faulty variant: the subcategory check is applied whatever the occasion.
_is_item_occasion_compatible_any_occasion(item, rules, occasion) ==
    LET fitBad == "allowed_fits" \in DOMAIN rules
                  /\ item.fit \notin rules.allowed_fits
        hotBad == occasion.weather = "hot" /\ item.weight = "heavy"
        coldBad == occasion.weather = "cold" /\ item.weight = "light"
        formalityBad ==
            /\ item.category = "top"
            /\ item.subcategory \notin BusinessTopSubcategories
    IN  ~fitBad /\ ~hotBad /\ ~coldBad /\ ~formalityBad

\* A faulty variant: the fit of the item is not looked at.
_is_item_occasion_compatible_no_fit(item, rules, occasion) ==
    LET hotBad == occasion.weather = "hot" /\ item.weight = "heavy"
        coldBad == occasion.weather = "cold" /\ item.weight = "light"
        formalityBad ==
            /\ occasion.occasion_type = "business"
            /\ item.category = "top"
            /\ item.subcategory \notin BusinessTopSubcategories
    IN  ~hotBad /\ ~coldBad /\ ~formalityBad

_is_item_occasion_compatible(item, rules, occasion) ==
    LET fitBad == "allowed_fits" \in DOMAIN rules
                  /\ item.fit \notin rules.allowed_fits
        hotBad == occasion.weather = "hot" /\ item.weight = "heavy"
        coldBad == occasion.weather = "cold" /\ item.weight = "light"
        formalityBad ==
            /\ occasion.occasion_type = "business"
            /\ item.category = "top"
            /\ item.subcategory \notin BusinessTopSubcategories
    IN  ~fitBad /\ ~hotBad /\ ~coldBad /\ ~formalityBad

RECURSIVE KeepOccasionCompatible(_, _, _)
KeepOccasionCompatible(items, rules, occasion) ==
    IF items = <<>> THEN <<>>
    ELSE (IF _is_item_occasion_compatible(Head(items), rules, occasion)
          THEN <<Head(items)>> ELSE <<>>)
         \o KeepOccasionCompatible(Tail(items), rules, occasion)

\* A faulty variant: the first item of the list is kept whatever it is.
filter_by_occasion_keep_head(items, occasion) ==
    IF items = <<>> THEN <<>>
    ELSE <<Head(items)>>
         \o KeepOccasionCompatible(
                Tail(items), RulesFor(occasion_rules, occasion.occasion_type), occasion)

filter_by_occasion(items, occasion) ==
    KeepOccasionCompatible(
        items, RulesFor(occasion_rules, occasion.occasion_type), occasion)

(***************************************************************************)
(* Python floats.  The engine compares sums and differences of decimal     *)
(* literals against decimal thresholds (rule_engine.py 196-199 and         *)
(* 206-220, outfit_generator.py 168-169 and 187-195), and binary rounding  *)
(* decides those comparisons: 0.8 - 0.5 > 0.3 holds in doubles.  A double  *)
(* x with 0.0625 <= |x| < 4, or x = 0, is held exactly as the integer      *)
(*     k * 10000 + e,   x = k/10 + e * u,   u = 2^-56 / 10,                *)
(* k the nearest number of tenths.  Sums and differences of such integers  *)
(* are the exact sums and differences; RoundToDouble rounds an exact       *)
(* result to the nearest double, ties to even, as IEEE-754 does.           *)
(***************************************************************************)
\* The spacing of the doubles around d, in units of u.
DoubleUlp(d) ==
    IF d >= 200000 THEN 320
    ELSE IF d >= 100000 THEN 160
    ELSE IF d >= 50000 THEN 80
    ELSE IF d >= 25000 THEN 40
    ELSE IF d >= 12500 THEN 20
    ELSE 10

\* 2^56 = 256 (mod 2 * ulp) for every ulp above, so the exact value
\* k * 2^56 + e (in units of u) is known modulo 2 * ulp.
RoundMagnitude(d) ==
    LET k == (d + 5000) \div 10000
        e == d - k * 10000
        ulp == DoubleUlp(d)
        q == (256 * k + e) % (2 * ulp)
        r == IF q < ulp THEN q ELSE q - ulp
    IN  IF 2 * r < ulp \/ (2 * r = ulp /\ q < ulp) THEN d - r ELSE d + (ulp - r)

RoundToDouble(d) == IF d < 0 THEN 0 - RoundMagnitude(0 - d) ELSE RoundMagnitude(d)

\* The double a literal of `tenths` tenths denotes (0.3 is Dbl(3)).
Dbl(tenths) == RoundToDouble(tenths * 10000)

FAdd(a, b) == RoundToDouble(a + b)

FSub(a, b) == RoundToDouble(a - b)

FAbs(a) == IF a < 0 THEN 0 - a ELSE a

FMax(a, b) == IF a >= b THEN a ELSE b

FMin(a, b) == IF a <= b THEN a ELSE b

(***************************************************************************)
(* services/rule_engine.py: proportion scoring                             *)
(***************************************************************************)
_estimate_volume(item) ==
    LET base == Dbl(5)
        byFit == IF item.fit \in {"oversized", "relaxed"} THEN FAdd(base, Dbl(3))
                 ELSE IF item.fit \in {"fitted", "skinny"} THEN FSub(base, Dbl(3))
                 ELSE base
        byWeight == IF item.weight = "heavy" THEN FAdd(byFit, Dbl(2))
                    ELSE IF item.weight = "light" THEN FSub(byFit, Dbl(2))
                    ELSE byFit
    IN  FMax(Dbl(1), FMin(Dbl(9), byWeight))

\* The set `elements` of score_outfit_proportions.
Elements(outfit) ==
    UNION {
        (IF outfit[i].pattern # NoPattern
         THEN {<<"pattern", outfit[i].pattern>>} ELSE {})
        \cup (IF outfit[i].color # "patterned"
              THEN {<<"color", outfit[i].color>>} ELSE {})
        \cup {<<"category", outfit[i].category>>} : i \in DOMAIN outfit}

\* [item for item in outfit if item.category in cats]
RECURSIVE OfCategories(_, _)
OfCategories(items, cats) ==
    IF items = <<>> THEN <<>>
    ELSE (IF Head(items).category \in cats THEN <<Head(items)>> ELSE <<>>)
         \o OfCategories(Tail(items), cats)

\* The balance multiplier, in tenths: 6 for *= 0.6, 12 for *= 1.2, else 10.
BalanceFactor(top_volume, bottom_volume) ==
    IF top_volume > Dbl(7) /\ bottom_volume > Dbl(7) THEN 6
    ELSE IF FAbs(FSub(top_volume, bottom_volume)) > Dbl(3) THEN 12
    ELSE 10

\* The score in hundredths: 100 is 1.0.  The products 1.0 * 0.7, * 0.6 and
\* * 1.2 evaluate to the doubles of 0.7, 0.6, 1.2, 0.42 and 0.84.
score_outfit_proportions(outfit) ==
    LET ruleOf3 == IF Cardinality(Elements(outfit)) < 3 THEN 70 ELSE 100
        tops == OfCategories(outfit, TopRole)
        bottoms == OfCategories(outfit, {"bottom"})
    IN  IF tops # <<>> /\ bottoms # <<>>
        THEN (ruleOf3 * BalanceFactor(_estimate_volume(tops[1]),
                                      _estimate_volume(bottoms[1]))) \div 10
        ELSE ruleOf3

(***************************************************************************)
(* services/outfit_generator.py: the heuristic score and the style notes   *)
(***************************************************************************)
max_generation_attempts == 1000

\* formality_map.get(item.fit, 0.5), in tenths.
FormalityBase(fit) ==
    CASE fit = "structured" -> 9
      [] fit = "fitted" -> 8
      [] fit = "straight" -> 6
      [] fit = "relaxed" -> 4
      [] fit = "oversized" -> 3
      [] fit = "skinny" -> 5
      [] fit = "boot_cut" -> 5
      [] fit = "a_line" -> 7
      [] OTHER -> 5

_estimate_formality_level(item) ==
    LET base == Dbl(FormalityBase(item.fit))
        adjusted == IF item.category \in {"dress", "outerwear"} THEN FAdd(base, Dbl(1))
                    ELSE IF item.category = "accessory" THEN FSub(base, Dbl(1))
                    ELSE base
    IN  FMax(Dbl(1), FMin(Dbl(9), adjusted))

\* In tenths.
_estimate_color_intensity(color) ==
    IF color \in {"red", "blue", "green", "purple", "pink", "orange"} THEN 8
    ELSE IF color \in {"black", "white", "gray", "navy", "beige", "cream", "brown"} THEN 3
    ELSE 5

_item_to_dict(item) ==
    [color |-> item.color,
     category |-> item.category,
     pattern |-> IF item.pattern # NoPattern THEN item.pattern ELSE "none",
     formality_level |-> _estimate_formality_level(item),
     color_intensity |-> _estimate_color_intensity(item.color),
     pattern_intensity |-> IF item.pattern # NoPattern THEN 8 ELSE 2]

\* The three sub-scores in tenths; the result is their sum, thirty times the
\* value (color_score + category_score + formality_score) / 3.  `items` is the
\* non-empty list of dicts (max of an empty list raises ValueError).
_predict_ml_compatibility(items) ==
    LET colors == {items[i].color : i \in DOMAIN items}
        color_score == IF Cardinality(colors) <= 2 THEN 9 ELSE 7
        category_score == IF Len(items) >= 3 THEN 9 ELSE 8
        levels == {items[i].formality_level : i \in DOMAIN items}
        hi == CHOOSE x \in levels : \A y \in levels : y <= x
        lo == CHOOSE x \in levels : \A y \in levels : x <= y
        formality_variance == FSub(hi, lo)
        formality_score == IF formality_variance < Dbl(3) THEN 8 ELSE 6
    IN  color_score + category_score + formality_score

\* A faulty variant: the weights applied to a difference, the wrong way round.
final_score_difference(rule_score, ml_score) == 20 * ml_score - 9 * rule_score

\* A faulty variant: the blend clamped to 1.0, as the simplified pipeline does.
final_score_clamped(rule_score, ml_score) ==
    IF 9 * rule_score + 20 * ml_score > 1500 THEN 1500
    ELSE 9 * rule_score + 20 * ml_score

\* 0.6 * rule_score + 0.4 * ml_score in units of 1/1500 (1500 is 1.0), from
\* rule_score in hundredths and ml_score in thirtieths.  The value is the
\* exact one: two doubles that differ in the last place only are one score.
final_score(rule_score, ml_score) == 9 * rule_score + 20 * ml_score

BodyTypeNote(bt) ==
    IF bt = "triangle"
    THEN <<"This outfit helps balance your proportions with emphasis on the upper body">>
    ELSE IF bt = "inverted_triangle"
    THEN <<"This outfit creates balance by adding volume to the lower body">>
    ELSE IF bt = "rectangle"
    THEN <<"This outfit creates the illusion of curves with strategic tailoring">>
    ELSE <<>>

_generate_style_notes(outfit, bt) ==
    LET colors == {outfit[i].color : i \in {j \in DOMAIN outfit : outfit[j].color # "patterned"}}
    IN  BodyTypeNote(bt)
        \o (IF Cardinality(colors) <= 2
            THEN <<"Monochromatic color scheme creates a sleek, elongated look">>
            ELSE <<"Well-coordinated color palette with visual interest">>)

(***************************************************************************)
(* services/outfit_generator.py: candidate assembly                        *)
(***************************************************************************)
_categorize_items(items) ==
    [tops |-> OfCategories(items, {"top"}),
     bottoms |-> OfCategories(items, {"bottom"}),
     dresses |-> OfCategories(items, {"dress"}),
     outerwear |-> OfCategories(items, {"outerwear"}),
     shoes |-> OfCategories(items, {"shoes"}),
     accessories |-> OfCategories(items, {"accessory"})]

\* What a call leaves behind: a list ("ok"), the value None ("none"), or an
\* exception raised by the random module ("raise").
Raised == [status |-> "raise", items |-> <<>>]

ReturnedNone == [status |-> "none", items |-> <<>>]

\* candidate.append(random.choice(bucket)): IndexError on an empty bucket.
AppendChoice(c, bucket) ==
    IF c.status # "ok" THEN {c}
    ELSE IF bucket = <<>> THEN {Raised}
    ELSE {[c EXCEPT !.items = Append(@, bucket[i])] : i \in DOMAIN bucket}

\* candidate.extend(random.sample(bucket, k)): k distinct positions in any
\* order; ValueError when k exceeds the bucket.  k is 1 or 2 here.
ExtendSample(c, bucket, k) ==
    IF c.status # "ok" THEN {c}
    ELSE IF k > Len(bucket) THEN {Raised}
    ELSE IF k = 1
    THEN {[c EXCEPT !.items = Append(@, bucket[i])] : i \in DOMAIN bucket}
    ELSE {[c EXCEPT !.items = @ \o <<bucket[i], bucket[j]>>] :
            <<i, j>> \in {p \in (DOMAIN bucket) \X (DOMAIN bucket) : p[1] # p[2]}}

\* A faulty variant: use_dress does not look at the dress bucket.
CandidateBasesUnguardedDress(cat) ==
    LET start == [status |-> "ok", items |-> <<>>]
    IN  UNION {
            IF lt03
            THEN AppendChoice(start, cat.dresses)
            ELSE IF cat.tops # <<>> /\ cat.bottoms # <<>>
                 THEN UNION {AppendChoice(c, cat.bottoms) :
                                c \in AppendChoice(start, cat.tops)}
                 ELSE {ReturnedNone} : lt03 \in BOOLEAN}

\* Lines 91-105: the base of the candidate, over both outcomes of
\* `random.random() < 0.3`.
CandidateBases(cat) ==
    LET start == [status |-> "ok", items |-> <<>>]
    IN  UNION {
            IF lt03 /\ cat.dresses # <<>>
            THEN AppendChoice(start, cat.dresses)
            ELSE IF cat.tops # <<>> /\ cat.bottoms # <<>>
                 THEN UNION {AppendChoice(c, cat.bottoms) :
                                c \in AppendChoice(start, cat.tops)}
                 ELSE {ReturnedNone} : lt03 \in BOOLEAN}

\* Lines 107-124: outerwear (over both outcomes of `random.random() < 0.4`),
\* shoes and accessories (over both outcomes of random.randint(1, 2)).
WithExtras(bases, cat) ==
    LET withOuterwear == UNION {
            IF c.status = "ok" /\ cat.outerwear # <<>> /\ lt04
            THEN AppendChoice(c, cat.outerwear) ELSE {c} :
                <<c, lt04>> \in bases \X BOOLEAN}
        withShoes == UNION {
            IF c.status = "ok" /\ cat.shoes # <<>>
            THEN AppendChoice(c, cat.shoes) ELSE {c} : c \in withOuterwear}
        minLen(n, bucket) == IF n <= Len(bucket) THEN n ELSE Len(bucket)
    IN  UNION {
            IF c.status = "ok" /\ cat.accessories # <<>>
            THEN ExtendSample(c, cat.accessories,
                              minLen(num_accessories, cat.accessories))
            ELSE {c} : <<c, num_accessories>> \in withShoes \X (1..2)}

\* Every value one call can return, over all outcomes of the random draws.
_create_candidate_outfit(cat) == WithExtras(CandidateBases(cat), cat)

\* A faulty variant: only a dress makes an outfit valid.
_is_valid_outfit_needs_dress(outfit) ==
    /\ outfit # <<>>
    /\ "dress" \in {outfit[i].category : i \in DOMAIN outfit}

_is_valid_outfit(outfit) ==
    /\ outfit # <<>>
    /\ LET categories == {outfit[i].category : i \in DOMAIN outfit}
       IN  \/ "top" \in categories /\ "bottom" \in categories
           \/ "dress" \in categories

(***************************************************************************)
(* services/outfit_generator.py: generate_outfits                          *)
(***************************************************************************)
\* `if candidate and self._is_valid_outfit(candidate, request)`
Accepted(c) == c.status = "ok" /\ c.items # <<>> /\ _is_valid_outfit(c.items)

\* A faulty variant: a missing top or bottom no longer ends the attempt (no
\* `return None`) and the candidate is kept whenever it is non-empty (no
\* _is_valid_outfit).
AttemptOutcomesNoBaseCheck(cat) ==
    LET start == [status |-> "ok", items |-> <<>>]
        bases == {IF b.status = "none" THEN start ELSE b : b \in CandidateBases(cat)}
    IN  {[status |-> IF c.status = "raise" THEN "raise"
                     ELSE IF c.items # <<>> THEN "keep" ELSE "skip",
          items |-> c.items] : c \in WithExtras(bases, cat)}

\* Lines 33-35: what one attempt ends in: an exception ("raise"), a candidate
\* to score and collect ("keep"), or nothing ("skip").
AttemptOutcomes(cat) ==
    {[status |-> IF c.status = "raise" THEN "raise"
                 ELSE IF Accepted(c) THEN "keep" ELSE "skip",
      items |-> c.items] : c \in _create_candidate_outfit(cat)}

\* The Outfit built for an accepted candidate when `outs` are collected.
\* created_at (the wall clock) is left out.
NewOutfit(candidate, outs, bt, occasion) ==
    [outfit_id |-> Len(outs) + 1,
     items |-> candidate,
     occasion_type |-> occasion.occasion_type,
     compatibility_score |->
        final_score(score_outfit_proportions(candidate),
                    _predict_ml_compatibility(
                        [i \in DOMAIN candidate |-> _item_to_dict(candidate[i])])),
     style_notes |-> _generate_style_notes(candidate, bt)]

\* A faulty variant: an unstable sort, which puts an outfit before the
\* earlier ones of the same score.
RECURSIVE InsertByScoreUnstable(_, _)
InsertByScoreUnstable(sorted, o) ==
    IF sorted = <<>> THEN <<o>>
    ELSE IF Head(sorted).compatibility_score > o.compatibility_score
         THEN <<Head(sorted)>> \o InsertByScoreUnstable(Tail(sorted), o)
         ELSE <<o>> \o sorted

\* list.sort(key=score, reverse=True) is stable: equal scores keep their order.
RECURSIVE InsertByScore(_, _)
InsertByScore(sorted, o) ==
    IF sorted = <<>> THEN <<o>>
    ELSE IF Head(sorted).compatibility_score >= o.compatibility_score
         THEN <<Head(sorted)>> \o InsertByScore(Tail(sorted), o)
         ELSE <<o>> \o sorted

RECURSIVE SortByScore(_)
SortByScore(outs) ==
    IF outs = <<>> THEN <<>>
    ELSE InsertByScore(SortByScore(SubSeq(outs, 1, Len(outs) - 1)), outs[Len(outs)])

\* A faulty variant: an outfit whose items an earlier outfit of the list has
\* is dropped before the first n are taken.
TruncateDistinct(outs, n) ==
    LET first(i) == \A j \in 1..(i - 1) : outs[j].items # outs[i].items
        kept == SelectSeq([i \in DOMAIN outs |-> i], first)
        distinct == [k \in DOMAIN kept |-> outs[kept[k]]]
    IN  SubSeq(distinct, 1, IF n <= Len(distinct) THEN n ELSE Len(distinct))

\* outfits[:n] for n >= 0
Truncate(outs, n) == SubSeq(outs, 1, IF n <= Len(outs) THEN n ELSE Len(outs))

\* A faulty variant: the budget test is off by one (attempt <= budget).
LoopOrReturnOffByOne(outs, att) ==
    IF Len(outs) < max_outfits /\ att <= max_generation_attempts
    THEN /\ pc' = "loop"
         /\ outfits' = outs
         /\ attempt' = att
         /\ result' = <<>>
    ELSE /\ pc' = "done"
         /\ outfits' = SortByScore(outs)
         /\ attempt' = att
         /\ result' = Truncate(SortByScore(outs), max_outfits)

\* The `while` test, and what follows the loop once it fails: the sort in
\* place and the return of the first max_outfits outfits.
LoopOrReturn(outs, att) ==
    IF Len(outs) < max_outfits /\ att < max_generation_attempts
    THEN /\ pc' = "loop"
         /\ outfits' = outs
         /\ attempt' = att
         /\ result' = <<>>
    ELSE /\ pc' = "done"
         /\ outfits' = SortByScore(outs)
         /\ attempt' = att
         /\ result' = Truncate(SortByScore(outs), max_outfits)

\* Steps 1 and 2 and the loop's set-up (lines 14-27).
FilterInventory ==
    /\ pc = "start"
    /\ filtered_items' =
           filter_by_occasion(filter_by_body_type(inventory, body_type),
                              occasion_info)
    /\ applied' = <<"body_type", "occasion">>
    /\ categorized_items' = _categorize_items(filtered_items')
    /\ LoopOrReturn(<<>>, 0)
    /\ UNCHANGED <<inventory, body_type, occasion_info, max_outfits>>

\* One iteration of the loop (lines 29-54), with the return when it is the last.
GenerationAttempt ==
    /\ pc = "loop"
    /\ \E c \in AttemptOutcomes(categorized_items) :
          IF c.status = "raise"
          THEN /\ pc' = "raised"
               /\ attempt' = attempt + 1
               /\ UNCHANGED <<outfits, result>>
          ELSE LoopOrReturn(
                   IF c.status = "keep"
                   THEN Append(outfits,
                               NewOutfit(c.items, outfits, body_type, occasion_info))
                   ELSE outfits,
                   attempt + 1)
    /\ UNCHANGED <<inventory, body_type, occasion_info, max_outfits,
                   filtered_items, applied, categorized_items>>

(***************************************************************************)
(* The requests that are explored                                          *)
(***************************************************************************)
MaxInventory == 2

MaxOutfits == 2

MaxFilterSteps == 2

\* A sample wardrobe, in inventory order.
Catalogue ==
    << ClothingItem("top_fitted", "top", "blouse", "red", NoPattern, "light", "fitted"),
       ClothingItem("bottom_skinny", "bottom", "jeans", "blue", NoPattern, "medium", "skinny"),
       ClothingItem("bottom_straight", "bottom", "trousers", "black", NoPattern, "medium", "straight"),
       ClothingItem("dress_fitted", "dress", "gown", "red", "floral", "medium", "fitted"),
       ClothingItem("coat", "outerwear", "coat", "blue", NoPattern, "heavy", "oversized"),
       ClothingItem("sneakers", "shoes", "sneakers", "white", NoPattern, "medium", "regular"),
       ClothingItem("belt", "accessory", "belt", "brown", NoPattern, "light", "slim") >>

\* The items of the catalogue at the positions `idx`, in catalogue order.
RECURSIVE Pick(_, _)
Pick(idx, from) ==
    IF from > Len(Catalogue) THEN <<>>
    ELSE (IF from \in idx THEN <<Catalogue[from]>> ELSE <<>>) \o Pick(idx, from + 1)

\* Two wardrobes beyond the small inventories: the whole catalogue, and a
\* dress with two accessories.
Wardrobes ==
    {Catalogue,
     << Catalogue[4], Catalogue[7],
        ClothingItem("scarf", "accessory", "scarf", "red", NoPattern, "light", "slim") >>}

Inventories ==
    {Pick(idx, 1) : idx \in {s \in SUBSET (DOMAIN Catalogue) : Cardinality(s) <= MaxInventory}}
    \cup Wardrobes

NoBuckets == _categorize_items(<<>>)

\* Body type, occasion and weather of the requests made with every inventory.
Profiles ==
    {[body_type |-> "triangle", occasion_type |-> "formal", weather |-> "warm"],
     [body_type |-> "hourglass", occasion_type |-> "formal", weather |-> "warm"],
     [body_type |-> "triangle", occasion_type |-> "business", weather |-> "cold"]}

\* The other pairs of a body type and an occasion that both have a rule
\* entry; these requests are made with the wardrobes.
RuleTableProfiles ==
    {[body_type |-> "triangle", occasion_type |-> "casual", weather |-> "warm"],
     [body_type |-> "triangle", occasion_type |-> "party", weather |-> "warm"],
     [body_type |-> "inverted_triangle", occasion_type |-> "casual", weather |-> "cool"],
     [body_type |-> "inverted_triangle", occasion_type |-> "business", weather |-> "warm"],
     [body_type |-> "inverted_triangle", occasion_type |-> "party", weather |-> "rainy"],
     [body_type |-> "rectangle", occasion_type |-> "casual", weather |-> "cool"],
     [body_type |-> "rectangle", occasion_type |-> "business", weather |-> "hot"],
     [body_type |-> "rectangle", occasion_type |-> "party", weather |-> "warm"]}

Init ==
    /\ \E p \in Profiles \cup RuleTableProfiles :
          /\ body_type = p.body_type
          /\ occasion_info = [occasion_type |-> p.occasion_type, weather |-> p.weather]
          /\ inventory \in IF p \in Profiles THEN Inventories ELSE Wardrobes
    /\ max_outfits \in 0..MaxOutfits
    /\ filtered_items = inventory
    /\ applied = <<>>
    /\ categorized_items = NoBuckets
    /\ outfits = <<>>
    /\ attempt = 0
    /\ pc = "start"
    /\ result = <<>>

Next == FilterInventory \/ GenerationAttempt

Spec == Init /\ [][Next]_vars

(***************************************************************************)
(* The filters on their own: each step applies one filter to the pool      *)
(***************************************************************************)
ApplyBodyTypeFilter ==
    /\ pc = "filter"
    /\ Len(applied) < MaxFilterSteps
    /\ filtered_items' = filter_by_body_type(filtered_items, body_type)
    /\ applied' = Append(applied, "body_type")
    /\ UNCHANGED <<inventory, body_type, occasion_info, max_outfits,
                   categorized_items, outfits, attempt, pc, result>>

ApplyOccasionFilter ==
    /\ pc = "filter"
    /\ Len(applied) < MaxFilterSteps
    /\ filtered_items' = filter_by_occasion(filtered_items, occasion_info)
    /\ applied' = Append(applied, "occasion")
    /\ UNCHANGED <<inventory, body_type, occasion_info, max_outfits,
                   categorized_items, outfits, attempt, pc, result>>

OccasionInfos ==
    {[occasion_type |-> o, weather |-> w] : o \in OccasionType, w \in WeatherCondition}

\* One item of every category, fit, colour and weight.
BodyProbes ==
    {<<ClothingItem("probe", cat, "shirt", col, NoPattern, w, f)>> :
        cat \in ItemCategory, f \in FitType, col \in Color, w \in Weight}

\* One item of every category, fit, weight and subcategory.
OccasionProbes ==
    {<<ClothingItem("probe", cat, sub, "black", NoPattern, w, f)>> :
        cat \in ItemCategory, f \in FitType, w \in Weight,
        sub \in {"shirt", "blouse", "button-down", "t-shirt", "Fitted Blouse"}}

FilterInit ==
    /\ \/ /\ inventory \in BodyProbes
          /\ body_type \in BodyType
          /\ occasion_info = [occasion_type |-> "formal", weather |-> "warm"]
       \/ /\ inventory \in OccasionProbes
          /\ body_type = "hourglass"
          /\ occasion_info \in OccasionInfos
       \/ /\ inventory \in Inventories
          /\ body_type \in BodyType
          /\ occasion_info \in OccasionInfos
    /\ max_outfits = 0
    /\ filtered_items = inventory
    /\ applied = <<>>
    /\ categorized_items = NoBuckets
    /\ outfits = <<>>
    /\ attempt = 0
    /\ pc = "filter"
    /\ result = <<>>

FilterNext == ApplyBodyTypeFilter \/ ApplyOccasionFilter

FilterSpec == FilterInit /\ [][FilterNext]_vars

(***************************************************************************)
(* The two scores on their own: one step scores a candidate outfit         *)
(***************************************************************************)
MaxCandidate == 3

\* rule_score = self.rule_engine.score_outfit_proportions(candidate, ...)
ScoreProportions ==
    /\ pc = "candidate_outfit"
    /\ result' = <<[items |-> inventory,
                    rule_score |-> score_outfit_proportions(inventory)]>>
    /\ pc' = "rule_scored"
    /\ UNCHANGED <<inventory, body_type, occasion_info, max_outfits,
                   filtered_items, applied, categorized_items, outfits, attempt>>

\* ml_score = self._predict_ml_compatibility([self._item_to_dict(item) ...])
PredictCompatibility ==
    /\ pc = "candidate_outfit"
    /\ result' = <<[items |-> inventory,
                    ml_score |-> _predict_ml_compatibility(
                        [i \in DOMAIN inventory |-> _item_to_dict(inventory[i])])]>>
    /\ pc' = "ml_scored"
    /\ UNCHANGED <<inventory, body_type, occasion_info, max_outfits,
                   filtered_items, applied, categorized_items, outfits, attempt>>

\* A top-role item over a bottom, of every fit and weight; both plain red, or
\* both of colour patterned.
VolumeProbes ==
    {<<ClothingItem("upper", cat, "probe", col, NoPattern, tw, tf),
       ClothingItem("lower", "bottom", "probe", col, NoPattern, bw, bf)>> :
        cat \in TopRole, tf \in FitType, tw \in Weight,
        bf \in FitType, bw \in Weight, col \in {"red", "patterned"}}

\* Items of every category, two of them accessories.
CategoryProbeItems ==
    {ClothingItem("top", "top", "probe", "red", NoPattern, "medium", "fitted"),
     ClothingItem("bottom", "bottom", "probe", "black", NoPattern, "medium", "straight"),
     ClothingItem("dress", "dress", "probe", "patterned", NoPattern, "medium", "a_line"),
     ClothingItem("coat", "outerwear", "probe", "blue", NoPattern, "heavy", "oversized"),
     ClothingItem("shoes", "shoes", "probe", "white", NoPattern, "medium", "regular"),
     ClothingItem("belt", "accessory", "probe", "brown", NoPattern, "light", "slim"),
     ClothingItem("scarf", "accessory", "probe", "patterned", "paisley", "light", "relaxed")}

\* Every non-empty list of at most MaxCandidate of those items.
CategoryProbes ==
    UNION {[1..n -> CategoryProbeItems] : n \in 1..MaxCandidate}

ScoringInit ==
    /\ inventory \in VolumeProbes \cup CategoryProbes
    /\ body_type = "oval"
    /\ occasion_info = [occasion_type |-> "formal", weather |-> "warm"]
    /\ max_outfits = 0
    /\ filtered_items = inventory
    /\ applied = <<>>
    /\ categorized_items = NoBuckets
    /\ outfits = <<>>
    /\ attempt = 0
    /\ pc = "candidate_outfit"
    /\ result = <<>>

ScoringNext == ScoreProportions \/ PredictCompatibility

ScoringSpec == ScoringInit /\ [][ScoringNext]_vars

(***************************************************************************)
(* app.py: the simplified pipeline embedded in the dashboard.  It has its  *)
(* own enumerations and item class; where a name of app.py is also a name  *)
(* of the services it carries the prefix app_.  The log messages and the   *)
(* image URL are left out.                                                 *)
(***************************************************************************)
app_BodyType == {"Triangle", "Rectangle", "InvertedTriangle", "None"}

app_OccasionType == {"casual", "business", "party"}

app_ItemCategory == {"top", "bottom", "dress"}

app_FitType == {"fitted", "structured", "relaxed", "skinny", "straight",
                "boot-cut", "a-line", "shapeless", "wide-leg"}

\* tags is only tested for membership: a set.
app_ClothingItem(id, cat, sub, f, pat, tags, col) ==
    [item_id |-> id, category |-> cat, subcategory |-> sub, fit |-> f,
     pattern |-> pat, tags |-> tags, color |-> col]

load_inventory ==
    << app_ClothingItem("1", "top", "Fitted Blouse", "fitted", "solid", {"business", "casual"}, "#3B82F6"),
       app_ClothingItem("2", "top", "Bold Pattern Top", "fitted", "bold", {"casual", "party"}, "#F59E0B"),
       app_ClothingItem("3", "top", "Shapeless Sweater", "shapeless", "solid", {"casual"}, "#9CA3AF"),
       app_ClothingItem("4", "top", "Structured Blazer", "structured", "solid", {"business"}, "#1F2937"),
       app_ClothingItem("5", "top", "V-Neck Top", "fitted", "solid", {"casual", "business"}, "#10B981"),
       app_ClothingItem("11", "bottom", "Skinny Jeans", "skinny", "solid", {"casual", "party"}, "#6B7280"),
       app_ClothingItem("12", "bottom", "Boot-cut Trousers", "boot-cut", "solid", {"casual", "business"}, "#4B5563"),
       app_ClothingItem("13", "bottom", "A-Line Skirt", "a-line", "bold", {"casual", "party"}, "#EC4899"),
       app_ClothingItem("14", "bottom", "Wide-Leg Pants", "wide-leg", "solid", {"business", "party"}, "#064E3B"),
       app_ClothingItem("15", "bottom", "Straight Trousers", "straight", "solid", {"business"}, "#374151"),
       app_ClothingItem("21", "dress", "A-Line Dress", "a-line", "bold", {"casual", "party"}, "#8B5CF6"),
       app_ClothingItem("22", "dress", "Sheath Dress", "fitted", "solid", {"business", "party"}, "#EF4444") >>

\* A faulty variant: an item is kept only when the occasion is its only tag.
app_filter_by_occasion_only_tag(items, occasion) ==
    LET keep(item) == item.tags = {occasion}
    IN  SelectSeq(items, keep)

\* StyleRuleEngine.filter_by_occasion
app_filter_by_occasion(items, occasion) ==
    LET keep(item) == occasion \in item.tags
    IN  SelectSeq(items, keep)

filter_by_user_rules(items, bt) ==
    LET keep(item) ==
            IF bt = "Triangle"
            THEN /\ ~(item.category = "bottom" /\ item.fit = "skinny")
                 /\ ~(item.category = "top" /\ item.fit = "shapeless")
            ELSE IF bt = "InvertedTriangle"
            THEN ~(item.category = "top" /\ item.pattern = "bold")
            ELSE IF bt = "Rectangle"
            THEN ~(item.category = "dress" /\ item.fit # "a-line")
            ELSE TRUE
    IN  IF bt = "None" THEN items ELSE SelectSeq(items, keep)

(***************************************************************************)
(* Python floats of _calculate_score: sums and differences of literals in  *)
(* hundredths.  A double x with 0.04 <= |x| < 2, or x = 0, is held exactly *)
(* as the integer                                                          *)
(*     k * 100000 + e,   x = k/100 + e * v,   v = 2^-56 / 100,             *)
(* k the nearest number of hundredths.                                     *)
(***************************************************************************)
\* The spacing of the doubles around d, in units of v.
CentUlp(d) ==
    IF d >= 10000000 THEN 1600
    ELSE IF d >= 5000000 THEN 800
    ELSE IF d >= 2500000 THEN 400
    ELSE IF d >= 1300000 THEN 200
    ELSE IF d >= 700000 THEN 100
    ELSE 50

\* 2^56 = 1536 (mod 2 * ulp) for every ulp above.
RoundCentMagnitude(d) ==
    LET k == (d + 50000) \div 100000
        e == d - k * 100000
        ulp == CentUlp(d)
        q == (1536 * k + e) % (2 * ulp)
        r == IF q < ulp THEN q ELSE q - ulp
    IN  IF 2 * r < ulp \/ (2 * r = ulp /\ q < ulp) THEN d - r ELSE d + (ulp - r)

RoundCent(d) == IF d < 0 THEN 0 - RoundCentMagnitude(0 - d) ELSE RoundCentMagnitude(d)

\* The double a literal of `hundredths` hundredths denotes (0.12 is Cents(12)).
Cents(hundredths) == RoundCent(hundredths * 100000)

\* The body-type bonus of one item, in hundredths (0: none).
BodyTypeBonus(it, bt) ==
    IF bt = "Triangle"
    THEN IF it.category \in {"top", "dress"} /\ it.fit \in {"fitted", "structured"} THEN 15
         ELSE IF it.category = "bottom" /\ it.fit \in {"straight", "boot-cut", "wide-leg"} THEN 10
         ELSE 0
    ELSE IF bt = "InvertedTriangle"
    THEN IF it.category = "top" /\ it.fit \in {"relaxed", "shapeless"} THEN 10
         ELSE IF it.category \in {"bottom", "dress"} /\ it.fit \in {"a-line", "wide-leg"} THEN 15
         ELSE 0
    ELSE IF bt = "Rectangle"
    THEN IF it.fit = "a-line" THEN 15 ELSE 0
    ELSE 0

\* The loop `for it in items: ... base_score += ...`.
RECURSIVE AddBodyTypeBonuses(_, _, _)
AddBodyTypeBonuses(base_score, items, bt) ==
    IF items = <<>> THEN base_score
    ELSE AddBodyTypeBonuses(
             IF BodyTypeBonus(Head(items), bt) = 0 THEN base_score
             ELSE RoundCent(base_score + Cents(BodyTypeBonus(Head(items), bt))),
             Tail(items), bt)

\* A faulty variant: the bonus for a bold item is given to an all-bold outfit
\* too, and the clash penalty is never applied.
_calculate_score_no_clash(items, bt) ==
    LET withBody == AddBodyTypeBonuses(Cents(60), items, bt)
        withColor == IF Len(items) > 1 /\ items[1].color # items[2].color
                     THEN RoundCent(withBody + Cents(12)) ELSE withBody
        has_bold == \E i \in DOMAIN items : items[i].pattern = "bold"
        withBold == IF Len(items) > 1 /\ has_bold
                    THEN RoundCent(withColor + Cents(8)) ELSE withColor
        withFit == IF Len(items) > 1 /\ items[1].fit = "shapeless"
                      /\ items[2].fit = "wide-leg"
                   THEN RoundCent(withBold - Cents(8)) ELSE withBold
        capped == IF withFit > Cents(100) THEN Cents(100) ELSE withFit
    IN  IF capped < 0 THEN 0 ELSE capped

_calculate_score(items, bt) ==
    LET withBody == AddBodyTypeBonuses(Cents(60), items, bt)
        withColor == IF Len(items) > 1 /\ items[1].color # items[2].color
                     THEN RoundCent(withBody + Cents(12)) ELSE withBody
        has_bold == \E i \in DOMAIN items : items[i].pattern = "bold"
        all_bold == \A i \in DOMAIN items : items[i].pattern = "bold"
        withBold == IF Len(items) > 1 /\ has_bold /\ ~all_bold
                    THEN RoundCent(withColor + Cents(8)) ELSE withColor
        withClash == IF Len(items) > 1 /\ all_bold
                     THEN RoundCent(withBold - Cents(12)) ELSE withBold
        withFit == IF Len(items) > 1 /\ items[1].fit = "shapeless"
                      /\ items[2].fit = "wide-leg"
                   THEN RoundCent(withClash - Cents(8)) ELSE withClash
        capped == IF withFit > Cents(100) THEN Cents(100) ELSE withFit
    IN  IF capped < 0 THEN 0 ELSE capped

\* The second note of a pair names the two colours: a tuple here.
_generate_notes(items, bt) ==
    << IF bt = "Triangle"
       THEN "Highlights the upper body to balance a triangle shape."
       ELSE IF bt = "InvertedTriangle"
       THEN "Adds volume to the lower body to balance an inverted triangle."
       ELSE IF bt = "Rectangle"
       THEN "Creates definition and curves (A-line recommendations)."
       ELSE "A classic and versatile combination." >>
    \o (IF Len(items) > 1
        THEN << IF items[1].color # items[2].color
                THEN <<"The", items[1].color, "and", items[2].color,
                       "tones complement each other.">>
                ELSE <<"A chic monochromatic look.">>,
                "Follows Rule of 3: consider adding an accessory to complete the look." >>
        ELSE <<"An elegant one-piece outfit - add shoes or outerwear to complete.">>)

\* Lines 184-186: the three buckets, in a record shaped like the six buckets.
app_categorize(final_items) ==
    [tops |-> OfCategories(final_items, {"top"}),
     bottoms |-> OfCategories(final_items, {"bottom"}),
     dresses |-> OfCategories(final_items, {"dress"}),
     outerwear |-> <<>>, shoes |-> <<>>, accessories |-> <<>>]

\* Lines 189-196: every top with every bottom, tops outermost, then every dress.
RECURSIVE Pairs(_, _)
Pairs(tops, bottoms) ==
    IF tops = <<>> THEN <<>>
    ELSE [j \in DOMAIN bottoms |-> <<Head(tops), bottoms[j]>>]
         \o Pairs(Tail(tops), bottoms)

candidates(cat) ==
    (IF cat.tops # <<>> /\ cat.bottoms # <<>> THEN Pairs(cat.tops, cat.bottoms) ELSE <<>>)
    \o [j \in DOMAIN cat.dresses |-> <<cat.dresses[j]>>]

\* Lines 204-208: outfit_id is the number in f"outfit_{idx+1}".
scored(cands, bt) ==
    [idx \in DOMAIN cands |->
        [outfit_id |-> idx,
         items |-> cands[idx],
         compatibility_score |-> _calculate_score(cands[idx], bt),
         style_notes |-> _generate_notes(cands[idx], bt)]]

\* Stage 1 (line 178).
AppFilterByOccasion ==
    /\ pc = "app_start"
    /\ filtered_items' = app_filter_by_occasion(inventory, occasion_info)
    /\ applied' = <<"occasion">>
    /\ pc' = "app_user_rules"
    /\ UNCHANGED <<inventory, body_type, occasion_info, max_outfits,
                   categorized_items, outfits, attempt, result>>

\* Stage 2 and the buckets (lines 180-186).
AppFilterByUserRules ==
    /\ pc = "app_user_rules"
    /\ filtered_items' = filter_by_user_rules(filtered_items, body_type)
    /\ applied' = Append(applied, "user_rules")
    /\ categorized_items' = app_categorize(filtered_items')
    /\ pc' = "app_candidates"
    /\ UNCHANGED <<inventory, body_type, occasion_info, max_outfits,
                   outfits, attempt, result>>

\* Lines 189-214: the candidates, their scores, the sort and the return.
AppScoreAndReturn ==
    /\ pc = "app_candidates"
    /\ outfits' = SortByScore(scored(candidates(categorized_items), body_type))
    /\ result' = Truncate(outfits', max_outfits)
    /\ pc' = "done"
    /\ UNCHANGED <<inventory, body_type, occasion_info, max_outfits,
                   filtered_items, applied, categorized_items, attempt>>

\* Patterns and colours of the items that are explored.
AppPatterns == {"solid", "bold", "striped"}

AppColors == {"#3B82F6", "#1F2937"}

\* One fitted top and one structured bottom, both tagged business, in either
\* order, of every pattern and colour.
BusinessPairs ==
    UNION {
        {<<app_ClothingItem("t", "top", "Blouse", "fitted", tp, tt, tc),
           app_ClothingItem("b", "bottom", "Trousers", "structured", bp, {"business"}, bc)>>,
         <<app_ClothingItem("b", "bottom", "Trousers", "structured", bp, {"business"}, bc),
           app_ClothingItem("t", "top", "Blouse", "fitted", tp, tt, tc)>>} :
        tp \in AppPatterns, bp \in AppPatterns, tc \in AppColors, bc \in AppColors,
        tt \in {{"business"}, {"business", "casual"}}}

AppInit ==
    /\ inventory \in BusinessPairs \cup {load_inventory, <<>>}
    /\ body_type \in app_BodyType
    /\ occasion_info \in app_OccasionType
    /\ max_outfits \in 0..(MaxOutfits + 1)
    /\ filtered_items = inventory
    /\ applied = <<>>
    /\ categorized_items = NoBuckets
    /\ outfits = <<>>
    /\ attempt = 0
    /\ pc = "app_start"
    /\ result = <<>>

AppNext == AppFilterByOccasion \/ AppFilterByUserRules \/ AppScoreAndReturn

AppSpec == AppInit /\ [][AppNext]_vars

(***************************************************************************)
(* _calculate_score on its own: one step scores a candidate of two items   *)
(***************************************************************************)
CalculateScore ==
    /\ pc = "candidate"
    /\ result' = <<[items |-> inventory,
                    compatibility_score |-> _calculate_score(inventory, body_type)]>>
    /\ pc' = "scored"
    /\ UNCHANGED <<inventory, body_type, occasion_info, max_outfits,
                   filtered_items, applied, categorized_items, outfits, attempt>>

\* An item of every category, fit, pattern and colour.
AppProbes ==
    {app_ClothingItem("probe", cat, "probe", f, pat, {"casual"}, col) :
        cat \in app_ItemCategory, f \in app_FitType,
        pat \in {"solid", "bold"}, col \in AppColors}

AppScoreInit ==
    /\ inventory \in AppProbes \X AppProbes
    /\ body_type \in app_BodyType
    /\ occasion_info = "casual"
    /\ max_outfits = 0
    /\ filtered_items = inventory
    /\ applied = <<>>
    /\ categorized_items = NoBuckets
    /\ outfits = <<>>
    /\ attempt = 0
    /\ pc = "candidate"
    /\ result = <<>>

AppScoreNext == CalculateScore

AppScoreSpec == AppScoreInit /\ [][AppScoreNext]_vars

(***************************************************************************)
(* Properties of generate_outfits                                          *)
(***************************************************************************)
CategoriesOf(items) == {items[i].category : i \in DOMAIN items}

HasBase(items) ==
    \/ "dress" \in CategoriesOf(items)
    \/ "top" \in CategoriesOf(items) /\ "bottom" \in CategoriesOf(items)

\* C1: every outfit collected, and so every outfit returned, contains a dress,
\* or at least one top and at least one bottom.
StructuralInvariant ==
    /\ \A i \in DOMAIN outfits : HasBase(outfits[i].items)
    /\ \A i \in DOMAIN result : HasBase(result[i].items)

\* A call that returned two outfits, the first a top with a bottom and no dress.
StructuralWitness ==
    /\ pc = "done"
    /\ Len(result) = 2
    /\ {"top", "bottom"} \subseteq CategoriesOf(result[1].items)
    /\ "dress" \notin CategoriesOf(result[1].items)

\* The filtered pool has no top, no bottom and no dress.
EmptyCandidateSpace ==
    /\ pc \in {"loop", "done", "raised"}
    /\ categorized_items.tops = <<>>
    /\ categorized_items.bottoms = <<>>
    /\ categorized_items.dresses = <<>>

\* C2: when the top, bottom and dress buckets are all empty after filtering,
\* the call collects nothing and never raises; every step it takes is one more
\* attempt, the loop runs only while fewer than max_generation_attempts
\* attempts are made, a call in the loop always has its next step, and the
\* call returns the empty list, whatever max_outfits is.
EmptySpaceTerminates ==
    /\ [](EmptyCandidateSpace =>
            /\ pc # "raised"
            /\ outfits = <<>>
            /\ attempt <= max_generation_attempts
            /\ pc = "done" => result = <<>>
            /\ pc = "loop" =>
                  /\ attempt < max_generation_attempts
                  /\ ENABLED GenerationAttempt)
    /\ [][pc = "loop" => attempt' = attempt + 1]_vars

\* A call on an empty candidate space that returned after using the whole budget.
EmptySpaceWitness ==
    /\ EmptyCandidateSpace
    /\ inventory # <<>>
    /\ max_outfits = MaxOutfits
    /\ pc = "done"
    /\ attempt = max_generation_attempts
    /\ result = <<>>

\* C3: the returned list is in non-increasing order of compatibility_score,
\* and returned outfits of equal score are in the order of their outfit_id.
RankingOrder ==
    pc = "done" =>
        \A i, j \in DOMAIN result :
            i < j =>
                \/ result[i].compatibility_score > result[j].compatibility_score
                \/ /\ result[i].compatibility_score = result[j].compatibility_score
                   /\ result[i].outfit_id < result[j].outfit_id

\* A call whose second outfit scored higher than its first and is returned first.
RankingWitness ==
    /\ pc = "done"
    /\ Len(result) = 2
    /\ result[1].outfit_id = 2
    /\ result[1].compatibility_score > result[2].compatibility_score

\* C4: generate_outfits never raises; it makes at most
\* max_generation_attempts attempts and returns at most max_outfits outfits,
\* fewer than max_outfits only when the budget is used up.
BudgetExhaustionIsNoError ==
    /\ pc # "raised"
    /\ attempt <= max_generation_attempts
    /\ pc = "done" =>
          /\ Len(result) <= max_outfits
          /\ Len(result) < max_outfits => attempt = max_generation_attempts

\* A call that found one outfit of the two asked for before the budget ran out.
BudgetWitness ==
    /\ pc = "done"
    /\ attempt = max_generation_attempts
    /\ max_outfits = 2
    /\ Len(result) = 1

\* C5: every outfit collected or returned has compatibility_score >= 0.
ScoreNonNegative ==
    /\ \A i \in DOMAIN outfits : outfits[i].compatibility_score >= 0
    /\ \A i \in DOMAIN result : result[i].compatibility_score >= 0

\* A call that returned a dress outfit and its score.
ScoreWitness ==
    /\ pc = "done"
    /\ result # <<>>
    /\ "dress" \in CategoriesOf(result[1].items)
    /\ result[1].compatibility_score > 0

\* The volume of section 4.1 in tenths, in exact decimal arithmetic.
DecimalVolume(item) ==
    LET v == 5 + (IF item.fit \in {"oversized", "relaxed"} THEN 3
                  ELSE IF item.fit \in {"fitted", "skinny"} THEN 0 - 3 ELSE 0)
               + (IF item.weight = "heavy" THEN 2
                  ELSE IF item.weight = "light" THEN 0 - 2 ELSE 0)
    IN  IF v < 1 THEN 1 ELSE IF v > 9 THEN 9 ELSE v

\* A top and a bottom whose volumes differ by more than 0.3, in an outfit of
\* at least three distinct elements.
ContrastingPair(items) ==
    LET tops == OfCategories(items, {"top"})
        bottoms == OfCategories(items, {"bottom"})
    IN  /\ tops # <<>>
        /\ bottoms # <<>>
        /\ OfCategories(items, TopRole)[1] = tops[1]
        /\ \/ DecimalVolume(tops[1]) - DecimalVolume(bottoms[1]) > 3
           \/ DecimalVolume(bottoms[1]) - DecimalVolume(tops[1]) > 3
        /\ Cardinality(Elements(items)) >= 3

\* C6: the blended score is not clamped: every returned outfit with a top and
\* a bottom whose volumes differ by more than 0.3, and at least three distinct
\* elements, has a compatibility_score strictly above 1.0 (1500).
ScoreExceedsOne ==
    pc = "done" =>
        \A i \in DOMAIN result :
            ContrastingPair(result[i].items) => result[i].compatibility_score > 1500

\* Such an outfit is returned, so [0, 1] does not bound the returned scores.
ScoreExceedsOneWitness ==
    /\ pc = "done"
    /\ \E i \in DOMAIN result :
          /\ ContrastingPair(result[i].items)
          /\ result[i].compatibility_score > 1500

\* The request of the triangle example: the only bottoms are skinny, no dress.
TriangleExampleRequest ==
    /\ body_type = "triangle"
    /\ \E i \in DOMAIN inventory : inventory[i].category = "bottom"
    /\ \A i \in DOMAIN inventory :
          /\ inventory[i].category = "bottom" => inventory[i].fit = "skinny"
          /\ inventory[i].category # "dress"

\* C10: for body type triangle and an inventory whose only bottom is skinny
\* and which has no dress, filter_by_body_type removes the bottom and
\* generate_outfits collects and returns no outfit.
TriangleExample ==
    (TriangleExampleRequest /\ pc # "start") =>
        /\ "bottom" \notin CategoriesOf(filter_by_body_type(inventory, body_type))
        /\ "bottom" \notin CategoriesOf(filtered_items)
        /\ outfits = <<>>
        /\ result = <<>>

\* The example with a top that passes both filters: the call still returns nothing.
TriangleWitness ==
    /\ TriangleExampleRequest
    /\ pc = "done"
    /\ max_outfits > 0
    /\ "top" \in CategoriesOf(filtered_items)
    /\ attempt = max_generation_attempts
    /\ result = <<>>

(***************************************************************************)
(* Properties of the filters                                               *)
(***************************************************************************)
\* C7: filtering an already filtered pool again, by the same body type or by
\* the same occasion, gives the same list as filtering once.
FilterIdempotent ==
    (Len(applied) >= 2 /\ \A i \in DOMAIN applied : applied[i] = applied[1]) =>
        filtered_items =
            IF applied[1] = "body_type"
            THEN filter_by_body_type(inventory, body_type)
            ELSE filter_by_occasion(inventory, occasion_info)

\* A pool of two items filtered twice by body type, one item removed.
FilterIdempotentWitness ==
    /\ applied = <<"body_type", "body_type">>
    /\ Len(inventory) = 2
    /\ Len(filtered_items) = 1

\* The keep rule of section 4.1 for the body-type filter.
BodyTypeKeeps(item, bt) ==
    IF bt \notin DOMAIN body_type_rules \/ item.category \in {"shoes", "accessory"}
    THEN TRUE
    ELSE LET r == body_type_rules[bt]
             role == IF item.category = "bottom" THEN "bottom" ELSE "top"
         IN  /\ item.fit \notin r.avoid_fits[role]
             /\ item.fit \in (IF role = "top" THEN r.top_fit ELSE r.bottom_fit)
             /\ item.color \in r.recommended_colors[role]
             /\ item.weight \in r.fabric_weight[role]

\* C8: filter_by_body_type keeps exactly the items that pass the keep rule for
\* their role, outerwear being checked as a top-role item for its weight too.
BodyTypeFilterAsClaimed ==
    applied = <<"body_type">> =>
        LET keep(item) == BodyTypeKeeps(item, body_type)
        IN  filtered_items = SelectSeq(inventory, keep)

\* The allowed-fits list of the occasion; an occasion without an entry has none.
AllowedFitsOf(o) ==
    IF o \in DOMAIN occasion_rules THEN occasion_rules[o].allowed_fits ELSE {}

WeatherAllows(item, occasion) ==
    /\ ~(occasion.weather = "hot" /\ item.weight = "heavy")
    /\ ~(occasion.weather = "cold" /\ item.weight = "light")

SubcategoryAllows(item, occasion) ==
    (occasion.occasion_type = "business" /\ item.category = "top") =>
        item.subcategory \in {"shirt", "blouse", "button-down"}

\* C9 as stated: an item is kept iff its fit is in the occasion's allowed-fits
\* list, the weather allows its weight, and its subcategory is allowed.
OccasionFilterAsClaimed ==
    applied = <<"occasion">> =>
        LET keep(item) == /\ item.fit \in AllowedFitsOf(occasion_info.occasion_type)
                          /\ WeatherAllows(item, occasion_info)
                          /\ SubcategoryAllows(item, occasion_info)
        IN  filtered_items = SelectSeq(inventory, keep)

\* C9 amended: the fit is checked only for an occasion that has a rule entry
\* (casual, business, party); for formal and glamorous every fit is kept.
OccasionFilterRule ==
    applied = <<"occasion">> =>
        LET keep(item) ==
                /\ \/ occasion_info.occasion_type \notin DOMAIN occasion_rules
                   \/ item.fit \in AllowedFitsOf(occasion_info.occasion_type)
                /\ WeatherAllows(item, occasion_info)
                /\ SubcategoryAllows(item, occasion_info)
        IN  filtered_items = SelectSeq(inventory, keep)

\* A top that is no shirt, blouse or button-down, kept for a party.
OccasionFilterWitness ==
    /\ applied = <<"occasion">>
    /\ occasion_info.occasion_type = "party"
    /\ inventory # <<>>
    /\ inventory[1].category = "top"
    /\ inventory[1].subcategory = "t-shirt"
    /\ filtered_items = inventory

(***************************************************************************)
(* Properties of the simplified pipeline (app.py)                          *)
(***************************************************************************)
\* The request of the business example: exactly one fitted top and one
\* structured bottom, both tagged business, for the occasion business.
BusinessPairRequest ==
    /\ inventory \in BusinessPairs
    /\ occasion_info = "business"

BusinessTop == OfCategories(inventory, {"top"})[1]

BusinessBottom == OfCategories(inventory, {"bottom"})[1]

\* C11 as stated: for every body type and every pattern and colour of the two
\* items the result is exactly one outfit, the top with the bottom, of score
\* at least 0.6.
BusinessPairAsClaimed ==
    (BusinessPairRequest /\ pc = "done" /\ max_outfits >= 1) =>
        /\ Len(result) = 1
        /\ result[1].items = <<BusinessTop, BusinessBottom>>
        /\ result[1].compatibility_score >= Cents(60)

\* Both items bold, of one colour, and no body-type bonus for the fitted top.
BoldClash ==
    /\ BusinessTop.pattern = "bold"
    /\ BusinessBottom.pattern = "bold"
    /\ BusinessTop.color = BusinessBottom.color
    /\ body_type # "Triangle"

\* C11 amended: when at least one outfit is asked for, the result is empty if
\* the body type is InvertedTriangle and the top is bold (the top is filtered
\* out), and otherwise exactly one outfit, outfit_1, the top with the bottom;
\* its score is at least 0.6 unless both items are bold, have the same colour
\* and the body type is not Triangle, and then it is 0.48.
BusinessPairRule ==
    (BusinessPairRequest /\ pc = "done" /\ max_outfits >= 1) =>
        IF body_type = "InvertedTriangle" /\ BusinessTop.pattern = "bold"
        THEN result = <<>>
        ELSE /\ Len(result) = 1
             /\ result[1].outfit_id = 1
             /\ result[1].items = <<BusinessTop, BusinessBottom>>
             /\ IF BoldClash
                THEN result[1].compatibility_score = Cents(48)
                ELSE result[1].compatibility_score >= Cents(60)

\* The pair returned for InvertedTriangle, the bottom bold and listed first.
BusinessPairWitness ==
    /\ BusinessPairRequest
    /\ pc = "done"
    /\ body_type = "InvertedTriangle"
    /\ inventory[1].category = "bottom"
    /\ inventory[1].pattern = "bold"
    /\ Len(result) = 1
    /\ result[1].items = <<BusinessTop, BusinessBottom>>
    /\ result[1].compatibility_score >= Cents(60)

(***************************************************************************)
(* Properties of _calculate_score (app.py)                                 *)
(***************************************************************************)
AllBold(items) == \A i \in DOMAIN items : items[i].pattern = "bold"

\* The candidates that differ from `items` in the pattern of one item only,
\* which is not bold.
OneBoldVariants(items) ==
    {[items EXCEPT ![i].pattern = p] : i \in DOMAIN items, p \in {"solid", "striped"}}

\* C12: for every body type, a candidate of two bold items scores strictly
\* less, after the clamp, than each candidate that differs from it only in
\* that exactly one of the two items is bold.
AllBoldScoresLower ==
    (pc = "scored" /\ AllBold(inventory)) =>
        \A v \in OneBoldVariants(inventory) :
            result[1].compatibility_score < _calculate_score(v, body_type)

\* Two bold items whose one-bold variant is clamped to 1.0.
AllBoldWitness ==
    /\ pc = "scored"
    /\ AllBold(inventory)
    /\ result[1].compatibility_score < Cents(100)
    /\ \E v \in OneBoldVariants(inventory) :
          _calculate_score(v, body_type) = Cents(100)

(***************************************************************************)
(* Properties of the two scores                                            *)
(***************************************************************************)
\* The heuristic as described: the category sub-score counts the distinct
\* categories of the candidate.  In tenths, as _predict_ml_compatibility.
DescribedCompatibility(items) ==
    LET dicts == [i \in DOMAIN items |-> _item_to_dict(items[i])]
        color_score ==
            IF Cardinality({dicts[i].color : i \in DOMAIN dicts}) <= 2 THEN 9 ELSE 7
        category_score == IF Cardinality(CategoriesOf(items)) >= 3 THEN 9 ELSE 8
        levels == {dicts[i].formality_level : i \in DOMAIN dicts}
        formality_score ==
            IF \A x, y \in levels : FSub(x, y) < Dbl(3) THEN 8 ELSE 6
    IN  color_score + category_score + formality_score

\* C13: the category sub-score is 0.9 exactly when the candidate covers at
\* least three distinct categories and 0.8 otherwise, the other two sub-scores
\* being as computed: one dress with two accessories gets 0.8.
CategoryScoreAsClaimed ==
    pc = "ml_scored" => result[1].ml_score = DescribedCompatibility(inventory)

\* The proportion score as described, in hundredths, with volumes in exact
\* decimal arithmetic.
DescribedProportions(outfit) ==
    LET ruleOf3 == IF Cardinality(Elements(outfit)) < 3 THEN 70 ELSE 100
        tops == OfCategories(outfit, TopRole)
        bottoms == OfCategories(outfit, {"bottom"})
        t == DecimalVolume(tops[1])
        b == DecimalVolume(bottoms[1])
    IN  IF tops # <<>> /\ bottoms # <<>>
        THEN IF t > 7 /\ b > 7 THEN (ruleOf3 * 6) \div 10
             ELSE IF t - b > 3 \/ b - t > 3 THEN (ruleOf3 * 12) \div 10
             ELSE ruleOf3
        ELSE ruleOf3

\* C15: score_outfit_proportions equals the described reference, and so it is
\* one of 0.42, 0.6, 0.7, 0.84, 1.0 and 1.2.
ProportionsAsClaimed ==
    pc = "rule_scored" =>
        /\ result[1].rule_score = DescribedProportions(inventory)
        /\ result[1].rule_score \in {42, 60, 70, 84, 100, 120}

(***************************************************************************)
(* Further properties of generate_outfits                                  *)
(***************************************************************************)
\* The colour note as described: monochromatic for at most two distinct
\* colours other than patterned.
ColourNote(items) ==
    IF Cardinality({items[i].color : i \in DOMAIN items} \ {"patterned"}) <= 2
    THEN "Monochromatic color scheme creates a sleek, elongated look"
    ELSE "Well-coordinated color palette with visual interest"

\* C14: for every body type, every returned outfit carries exactly two style
\* notes: first the note of the body type, then the colour note.
StyleNotesAsClaimed ==
    pc = "done" =>
        \A i \in DOMAIN result :
            /\ Len(result[i].style_notes) = 2
            /\ result[i].style_notes[1] # ColourNote(result[i].items)
            /\ result[i].style_notes[2] = ColourNote(result[i].items)

\* How many outfits of the list are made of exactly these items.
CountOf(items, outs) == Cardinality({i \in DOMAIN outs : outs[i].items = items})

\* C16: no deduplication: a candidate is collected whether or not an outfit
\* of the same items is already there, so no step of the loop lowers the
\* number of collected outfits made of some items, the collected outfits have
\* the ids 1, 2, ... each once, and the returned list holds every item
\* combination as many times as it was collected.
NoDeduplication ==
    /\ [](/\ {outfits[i].outfit_id : i \in DOMAIN outfits} = 1..Len(outfits)
          /\ pc = "done" =>
                \A i \in DOMAIN outfits :
                    CountOf(outfits[i].items, result) = CountOf(outfits[i].items, outfits))
    /\ [][\A i \in DOMAIN outfits :
            CountOf(outfits[i].items, outfits') >= CountOf(outfits[i].items, outfits)]_vars

\* Two returned outfits of the same items under different ids.
DuplicateWitness ==
    /\ pc = "done"
    /\ Len(result) = 2
    /\ result[1].items = result[2].items
    /\ result[1].outfit_id # result[2].outfit_id

\* How many items of the outfit have the category.
CountCategory(items, cat) == Len(OfCategories(items, {cat}))

\* The candidates one attempt can collect from the buckets.
Collectable(cat) == {c.items : c \in {o \in AttemptOutcomes(cat) : o.status = "keep"}}

\* C17 as stated: every returned outfit has one dress and no top or bottom, or
\* one top, one bottom and no dress; at most one outerwear item; one shoes
\* item iff the shoes bucket is not empty; no accessory twice and no more
\* accessories than the bucket has; and accessories are optional: from a
\* non-empty accessory bucket an attempt can collect an outfit with no
\* accessory, with one, and (when the bucket has two) with two.
CompositionAsClaimed ==
    /\ pc = "done" =>
          \A i \in DOMAIN result :
              LET items == result[i].items
                  n(cat) == CountCategory(items, cat)
                  acc == OfCategories(items, {"accessory"})
              IN  /\ \/ n("dress") = 1 /\ n("top") = 0 /\ n("bottom") = 0
                     \/ n("dress") = 0 /\ n("top") = 1 /\ n("bottom") = 1
                  /\ n("outerwear") <= 1
                  /\ n("shoes") = (IF categorized_items.shoes # <<>> THEN 1 ELSE 0)
                  /\ Len(acc) <= 2
                  /\ Len(acc) <= Len(categorized_items.accessories)
                  /\ \A j, k \in DOMAIN acc : j # k => acc[j] # acc[k]
    /\ (pc = "loop" /\ categorized_items.accessories # <<>>
          /\ Collectable(categorized_items) # {}) =>
          \A k \in 0..(IF Len(categorized_items.accessories) >= 2 THEN 2 ELSE 1) :
              \E items \in Collectable(categorized_items) :
                  CountCategory(items, "accessory") = k

\* C19: when the body type and the occasion both have a rule entry, no
\* collected or returned outfit has a top or a bottom (each is a dress
\* outfit), and for triangle with casual, rectangle with casual, and
\* inverted_triangle with business or party nothing is collected or returned.
RuleTablesLeaveDressesOnly ==
    (body_type \in DOMAIN body_type_rules
        /\ occasion_info.occasion_type \in DOMAIN occasion_rules
        /\ pc # "start") =>
        /\ categorized_items.tops = <<>> \/ categorized_items.bottoms = <<>>
        /\ \A i \in DOMAIN outfits :
              /\ "dress" \in CategoriesOf(outfits[i].items)
              /\ {"top", "bottom"} \cap CategoriesOf(outfits[i].items) = {}
        /\ \A i \in DOMAIN result :
              /\ "dress" \in CategoriesOf(result[i].items)
              /\ {"top", "bottom"} \cap CategoriesOf(result[i].items) = {}
        /\ <<body_type, occasion_info.occasion_type>> \in
              {<<"triangle", "casual">>, <<"rectangle", "casual">>,
               <<"inverted_triangle", "business">>, <<"inverted_triangle", "party">>}
           => outfits = <<>> /\ result = <<>>

\* The whole catalogue for a triangle at a party: a top passes both filters,
\* no bottom does, and the dress is returned twice.
RuleTablesWitness ==
    /\ body_type = "triangle"
    /\ occasion_info.occasion_type = "party"
    /\ inventory = Catalogue
    /\ pc = "done"
    /\ categorized_items.tops # <<>>
    /\ Len(result) = 2
    /\ "dress" \in CategoriesOf(result[1].items)

\* C20: the number of collected outfits never exceeds max_outfits, so the
\* truncation removes nothing; and when the filtered pool has a top and a
\* bottom every attempt collects an outfit, so the call returns exactly
\* max_outfits outfits after exactly max_outfits attempts, their ids being
\* 1 .. max_outfits, each once.
LoopExit ==
    /\ Len(outfits) <= max_outfits
    /\ pc = "done" =>
          /\ Len(result) = Len(outfits)
          /\ \A i \in DOMAIN outfits : CountOf(outfits[i].items, result) >= 1
    /\ (pc \in {"loop", "done", "raised"}
          /\ categorized_items.tops # <<>> /\ categorized_items.bottoms # <<>>) =>
          /\ pc # "raised"
          /\ attempt = Len(outfits)
          /\ pc = "done" =>
                /\ attempt = max_outfits
                /\ Len(result) = max_outfits
                /\ \A k \in 1..max_outfits :
                      Cardinality({i \in DOMAIN result : result[i].outfit_id = k}) = 1

\* A pool with a top, a bottom and a dress: two outfits after two attempts,
\* one with the dress, one with the top and the bottom.
LoopExitWitness ==
    /\ pc = "done"
    /\ categorized_items.tops # <<>>
    /\ categorized_items.bottoms # <<>>
    /\ categorized_items.dresses # <<>>
    /\ max_outfits = 2
    /\ attempt = 2
    /\ Len(result) = 2
    /\ \E i, j \in DOMAIN result :
          /\ "dress" \in CategoriesOf(result[i].items)
          /\ "top" \in CategoriesOf(result[j].items)

(***************************************************************************)
(* Further properties of the filters                                       *)
(***************************************************************************)
\* C18: the two filters applied in either order give the same list: the
\* pool of generate_outfits does not depend on the body-type filter running
\* first.
FilterOrderIrrelevant ==
    (Len(applied) = 2 /\ applied[1] # applied[2]) =>
        /\ filtered_items =
              filter_by_occasion(filter_by_body_type(inventory, body_type),
                                 occasion_info)
        /\ filtered_items =
              filter_by_body_type(filter_by_occasion(inventory, occasion_info),
                                  body_type)

\* The occasion filter applied first to two items; each filter alone removes
\* the first one and keeps the second.
FilterOrderWitness ==
    /\ applied = <<"occasion", "body_type">>
    /\ Len(inventory) = 2
    /\ filter_by_body_type(inventory, body_type) = <<inventory[2]>>
    /\ filter_by_occasion(inventory, occasion_info) = <<inventory[2]>>
    /\ filtered_items = <<inventory[2]>>

====
